---- MODULE Spec2Model ----
(***************************************************************************)
(* Model of the silver-mobile wallet core: Keystore (keystore.rs),         *)
(* SecurityManager::validate_password (security.rs), Account (account.rs), *)
(* MobileTransaction (transaction.rs), MobileWallet (wallet.rs) and the    *)
(* single wallet slot of MobileWalletManager (lib.rs).                     *)
(*                                                                         *)
(* Cryptographic primitives are modelled symbolically: a digest, a derived *)
(* key or a slice of a byte blob is a record naming how it was computed,   *)
(* so two values are equal exactly when they were computed the same way.   *)
(***************************************************************************)
EXTENDS Integers, Sequences, FiniteSets, TLC

VARIABLES keystore, origin, wallet, stored, ret, overflow_checks,
          lock, pc, local, made, loaded, built

\* the state of the threads that call the manager concurrently
threads == <<lock, pc, local, made>>

vars == <<keystore, origin, wallet, stored, ret, overflow_checks, threads, loaded, built>>

(***************************************************************************)
(* Bounds of the model.                                                    *)
(***************************************************************************)
\* number of distinct outcomes of the 16-byte random salt
MaxSalts == 2
\* number of distinct outcomes of the random word choice of generate_mnemonic
MaxSeeds == 2
\* number of distinct outcomes of Uuid::new_v4
MaxIds == 2
\* number of distinct readings of the system clock
MaxTimes == 2
\* largest number of accounts a wallet grows to
MaxAccounts == 3
\* largest transaction history a wallet grows to
MaxHistory == 1
\* bit width standing for u64 (sums wrap modulo 2^WordBits)
WordBits == 12
\* number of threads that call the manager concurrently
MaxProcs == 2

(***************************************************************************)
(* Results: Result<T> of errors.rs, with the primitive calls performed on  *)
(* the way (in order) recorded in calls.                                   *)
(***************************************************************************)
Ok(v, calls) == [ok |-> TRUE, err |-> "", val |-> <<v>>, calls |-> calls]

Err(e, calls) == [ok |-> FALSE, err |-> e, val |-> <<>>, calls |-> calls]

None == <<>>

Some(v) == <<v>>

(***************************************************************************)
(* Strings.  A string is a sequence of characters; a character carries its *)
(* Unicode class and the number of bytes of its UTF-8 encoding.            *)
(***************************************************************************)
Lo(c) == [c |-> c, cls |-> "lower", w |-> 1]

Up(c) == [c |-> c, cls |-> "upper", w |-> 1]

Dg(c) == [c |-> c, cls |-> "digit", w |-> 1]

\* a two-byte lowercase letter such as U+00E9
Lo2(c) == [c |-> c, cls |-> "lower", w |-> 2]

\* str::len(): the length in BYTES
RECURSIVE StrLen(_)
StrLen(s) == IF s = <<>> THEN 0 ELSE Head(s).w + StrLen(Tail(s))

\* the number of characters (chars().count())
CharCount(s) == Len(s)

HasClass(s, cls) == \E i \in 1..Len(s) : s[i].cls = cls

\* "short"
PwShort == <<Lo("s"), Lo("h"), Lo("o"), Lo("r"), Lo("t")>>

\* "password123" (the password of the keystore and wallet unit tests)
PwLower == <<Lo("p"), Lo("a"), Lo("s"), Lo("s"), Lo("w"), Lo("o"), Lo("r"), Lo("d"),
             Dg("1"), Dg("2"), Dg("3")>>

\* "ValidPass123"
PwValid == <<Up("V"), Lo("a"), Lo("l"), Lo("i"), Lo("d"), Up("P"), Lo("a"), Lo("s"), Lo("s"),
             Dg("1"), Dg("2"), Dg("3")>>

\* "Other9Pw"
PwOther == <<Up("O"), Lo("t"), Lo("h"), Lo("e"), Lo("r"), Dg("9"), Up("P"), Lo("w")>>

\* "Aa1" followed by three U+00E9: 6 characters, 9 bytes
PwMulti == <<Up("A"), Lo("a"), Dg("1"), Lo2("e"), Lo2("e"), Lo2("e")>>

Passwords == {PwShort, PwLower, PwValid, PwOther, PwMulti}

\* the password policy as the specification words it (section 4.4)
MeetsPolicy(p) ==
    /\ CharCount(p) >= 8
    /\ HasClass(p, "upper")
    /\ HasClass(p, "lower")
    /\ HasClass(p, "digit")

(***************************************************************************)
(* SecurityManager::validate_password                                      *)
(***************************************************************************)
validate_password(password) ==
    IF StrLen(password) < 8
    THEN Err("InvalidPassword", <<"validate_password">>)
    ELSE IF \/ ~HasClass(password, "upper")
            \/ ~HasClass(password, "lower")
            \/ ~HasClass(password, "digit")
         THEN Err("InvalidPassword", <<"validate_password">>)
         ELSE Ok(TRUE, <<"validate_password">>)

(***************************************************************************)
(* Recovery phrases.  A phrase is a sequence of pieces: a whitespace       *)
(* character, or a run of non-whitespace characters (a word).  Two word    *)
(* pieces next to each other form ONE token.                               *)
(***************************************************************************)
WS == [ws |-> TRUE, word |-> " "]

W(word) == [ws |-> FALSE, word |-> word]

\* the wordlist of generate_mnemonic
Words == <<"abandon", "ability", "able", "about", "above", "absent", "absorb", "abstract",
           "academy", "accept", "access", "accident", "account", "accuse", "achieve", "acid">>

\* Vec<&str>::join(sep)
RECURSIVE Join(_, _)
Join(ws, sep) ==
    IF ws = <<>> THEN <<>>
    ELSE IF Len(ws) = 1 THEN <<W(ws[1])>>
    ELSE <<W(ws[1])>> \o sep \o Join(Tail(ws), sep)

\* split(' ').count(): one more than the number of separator characters
SplitOnSpaceCount(s) == Cardinality({i \in 1..Len(s) : s[i].ws}) + 1

\* str::split_whitespace().count(): the number of maximal runs of
\* non-whitespace
SplitWhitespaceCount(s) ==
    Cardinality({i \in 1..Len(s) : ~s[i].ws /\ (i = 1 \/ s[i - 1].ws)})

\* the mnemonic of the unit test test_keystore_from_mnemonic
TestMnemonic == Join(SubSeq(Words, 1, 12), <<WS>>)

\* "one two three"
ThreeWords == Join(<<"one", "two", "three">>, <<WS>>)

\* twelve tokens outside the wordlist
ForeignTwelve == Join([i \in 1..12 |-> "zebra"], <<WS>>)

\* twelve tokens, doubled separators, leading and trailing whitespace
SpacedTwelve == <<WS>> \o Join(SubSeq(Words, 1, 12), <<WS, WS>>) \o <<WS>>

ElevenWords == Join(SubSeq(Words, 1, 11), <<WS>>)

ThirteenWords == Join(SubSeq(Words, 1, 13), <<WS>>)

\* the test mnemonic with the first separator missing: eleven tokens
GluedTwelve == <<W("abandon")>> \o Join(SubSeq(Words, 2, 12), <<WS>>)

Phrases == {TestMnemonic, ThreeWords, ForeignTwelve, SpacedTwelve, ElevenWords,
            ThirteenWords, GluedTwelve, <<>>}

(***************************************************************************)
(* Keystore                                                                *)
(***************************************************************************)
\* the outcomes of the random salt: (0..16).map(|_| rng.gen()).collect()
Salts == {[kind |-> "random", id |-> s, len |-> 16] : s \in 1..MaxSalts}

\* Keystore::derive_key: Argon2 of the password under the salt (32 bytes).
\* SaltString::encode_b64 and hash_password reject a salt outside 8..48 bytes.
derive_key(password, salt) ==
    IF salt.len < 8 \/ salt.len > 48
    THEN Err("KeystoreError", <<"argon2">>)
    ELSE Ok([kind |-> "argon2", password |-> password, salt |-> salt, len |-> 32],
            <<"argon2">>)

\* Keystore::generate_mnemonic: twelve words, each words[rng.gen_range(0..16)],
\* joined by one space; seed stands for the outcome of the random source
generate_mnemonic(seed) ==
    Ok(Join([i \in 1..12 |-> Words[((seed * i) % Len(Words)) + 1]], <<WS>>), <<>>)

\* Keystore::encrypt: the 32-byte BLAKE3 digest of data followed by key.
\* flip = 0: every byte as computed; flip = i: byte i differs.
encrypt(data, key) ==
    Ok([kind |-> "blake3", data |-> data, key |-> key, len |-> 32, flip |-> 0],
       <<"blake3">>)

\* bytes[from..to) of a blob
Slice(blob, from, to) == [kind |-> "slice", of |-> blob, from |-> from, to |-> to]

Sha256(parts) == [kind |-> "sha256", input |-> parts]

\* ChaCha20Poly1305::decrypt: the tag verifies exactly when the bytes are an
\* intact sealing made under this key and this nonce
AeadDecrypt(key, nonce, ciphertext_and_tag) ==
    LET blob == ciphertext_and_tag.of IN
    IF /\ blob.kind = "chacha20poly1305"
       /\ blob.flip = 0
       /\ ciphertext_and_tag.to = blob.sealed_len
       /\ blob.key = key
       /\ nonce = Slice(blob, 0, 12)
    THEN Ok(blob.data, <<"chacha20poly1305">>)
    ELSE Err("aead::Error", <<"chacha20poly1305">>)

\* decrypt that returns the output of the stream cipher without verifying
\* the tag
decrypt_unauthenticated(encrypted, key) ==
    IF encrypted.len < 28
    THEN Err("CryptoError", <<>>)
    ELSE Ok([kind |-> "chacha20", key |-> key, data |-> Slice(encrypted, 12, encrypted.len)],
            <<"sha256", "sha256", "chacha20">>)

\* decrypt without its length check
decrypt_unchecked_length(encrypted, key) ==
    IF encrypted.len < 12
    THEN Err("panic", <<>>)
    ELSE Err("CryptoError", <<"sha256", "sha256", "chacha20poly1305">>)

\* Keystore::decrypt
decrypt(encrypted, key) ==
    IF encrypted.len < 28
    THEN Err("CryptoError", <<>>)
    ELSE LET nonce_bytes == Slice(encrypted, 0, 12)
             ciphertext_and_tag == Slice(encrypted, 12, encrypted.len)
             prk == Sha256(<<key, "silver_keystore_extract">>)
             derived_key == Sha256(<<prk, "silver_keystore_expand", nonce_bytes>>)
             opened == AeadDecrypt(derived_key, nonce_bytes, ciphertext_and_tag)
         IN IF opened.ok
            THEN Ok(opened.val[1], <<"sha256", "sha256">> \o opened.calls)
            ELSE Err("CryptoError", <<"sha256", "sha256">> \o opened.calls)

\* Keystore::new
Keystore_new(password, salt, seed) ==
    LET master_key == derive_key(password, salt) IN
    IF ~master_key.ok THEN Err(master_key.err, master_key.calls)
    ELSE LET mnemonic == generate_mnemonic(seed)
             encrypted_mnemonic == encrypt(mnemonic.val[1], master_key.val[1])
         IN Ok([encrypted_mnemonic |-> encrypted_mnemonic.val[1],
                salt |-> salt,
                master_key |-> master_key.val[1]],
               master_key.calls \o mnemonic.calls \o encrypted_mnemonic.calls)

\* Keystore::from_mnemonic
Keystore_from_mnemonic(mnemonic, password, salt) ==
    IF SplitWhitespaceCount(mnemonic) # 12
    THEN Err("InvalidMnemonic", <<>>)
    ELSE LET master_key == derive_key(password, salt) IN
         IF ~master_key.ok THEN Err(master_key.err, master_key.calls)
         ELSE LET encrypted_mnemonic == encrypt(mnemonic, master_key.val[1])
              IN Ok([encrypted_mnemonic |-> encrypted_mnemonic.val[1],
                     salt |-> salt,
                     master_key |-> master_key.val[1]],
                    master_key.calls \o encrypted_mnemonic.calls)

\* Keystore::export_mnemonic
export_mnemonic(self, password) ==
    LET key == derive_key(password, self.salt) IN
    IF ~key.ok THEN Err(key.err, key.calls)
    ELSE LET plain == decrypt(self.encrypted_mnemonic, key.val[1])
         IN [plain EXCEPT !.calls = key.calls \o plain.calls]

(***************************************************************************)
(* u64 arithmetic.  The sum of two u64 that does not fit panics when the   *)
(* build has overflow checks (debug profile) and wraps when it has none    *)
(* (release profile).                                                      *)
(***************************************************************************)
U64Max == 2 ^ WordBits - 1

AddU64(a, b, checks) ==
    IF a + b <= U64Max THEN [panic |-> FALSE, val |-> a + b]
    ELSE IF checks THEN [panic |-> TRUE, val |-> 0]
    ELSE [panic |-> FALSE, val |-> (a + b) % (U64Max + 1)]

Amounts == {0, 999, 1000, U64Max}

Fees == {0, 1}

Balances == {0, 1000, U64Max}

(***************************************************************************)
(* Account                                                                 *)
(***************************************************************************)
\* a literal piece of text
Lit(text) == [lit |-> text, n |-> -1]

\* hex::encode of the first 8 bytes of the BLAKE3 digest of index
HexBlake3(index) == [lit |-> "hex(blake3(index)[..8])", n |-> index]

\* Account::new
Account_new(index) ==
    Ok([index |-> index,
        name |-> <<Lit("Account "), [lit |-> "{}", n |-> index]>>,
        address |-> <<Lit("silver_"), HexBlake3(index)>>,
        public_key |-> [kind |-> "blake3", data |-> index, key |-> "public_key"],
        balance |-> 0],
       <<"blake3", "blake3">>)

(***************************************************************************)
(* MobileTransaction                                                       *)
(***************************************************************************)
EmptyString == <<>>

\* "silver_def456"
Recipient == <<Lit("silver_def456")>>

Recipients == {EmptyString, Recipient}

\* the readings of SystemTime::now()
Times == 1..MaxTimes

\* amount.to_le_bytes()
LeBytes(amount) == [lit |-> "u64_le", n |-> amount]

\* the "tx_"-prefixed hex of the BLAKE3 digest of the bytes fed to the hasher
TxId(input) == [kind |-> "tx_hex_blake3", input |-> input]

\* MobileTransaction::new with the fee fed to the hasher as well
MobileTransaction_new_hashing_fee(from, to, amount, fee, now) ==
    IF from = <<>> \/ to = <<>> \/ amount = 0
    THEN Err("InvalidTransaction", <<>>)
    ELSE Ok([id |-> TxId(from \o to \o <<LeBytes(amount), LeBytes(fee)>>),
             from |-> from,
             to |-> to,
             amount |-> amount,
             fee |-> fee,
             status |-> "Pending",
             timestamp |-> now],
            <<"blake3">>)

\* MobileTransaction::new: the hasher is fed from, then to, then the amount
MobileTransaction_new(from, to, amount, fee, now) ==
    IF from = <<>> \/ to = <<>>
    THEN Err("InvalidTransaction", <<>>)
    ELSE IF amount = 0
    THEN Err("InvalidTransaction", <<>>)
    ELSE Ok([id |-> TxId(from \o to \o <<LeBytes(amount)>>),
             from |-> from,
             to |-> to,
             amount |-> amount,
             fee |-> fee,
             status |-> "Pending",
             timestamp |-> now],
            <<"blake3">>)

\* MobileTransaction::total
total(self, checks) == AddU64(self.amount, self.fee, checks)

\* TransactionStatus
Statuses == {"Pending", "Confirmed", "Failed"}

\* MobileTransaction::set_status
set_status(self, status) == [self EXCEPT !.status = status]

(***************************************************************************)
(* MobileWallet                                                            *)
(***************************************************************************)
\* the outcomes of uuid::Uuid::new_v4().to_string()
WalletIds == 1..MaxIds

\* MobileWallet::new
MobileWallet_new(password, salt, seed, id) ==
    IF StrLen(password) < 8
    THEN Err("InvalidPassword", <<>>)
    ELSE LET ks == Keystore_new(password, salt, seed) IN
         IF ~ks.ok THEN Err(ks.err, ks.calls)
         ELSE LET account == Account_new(0)
              IN Ok([id |-> id,
                     accounts |-> <<account.val[1]>>,
                     active_account |-> 0,
                     keystore |-> ks.val[1],
                     balance |-> 0,
                     transaction_history |-> <<>>],
                    ks.calls \o account.calls)

\* MobileWallet::from_mnemonic
MobileWallet_from_mnemonic(mnemonic, password, salt, id) ==
    IF StrLen(password) < 8
    THEN Err("InvalidPassword", <<>>)
    ELSE LET ks == Keystore_from_mnemonic(mnemonic, password, salt) IN
         IF ~ks.ok THEN Err(ks.err, ks.calls)
         ELSE LET account == Account_new(0)
              IN Ok([id |-> id,
                     accounts |-> <<account.val[1]>>,
                     active_account |-> 0,
                     keystore |-> ks.val[1],
                     balance |-> 0,
                     transaction_history |-> <<>>],
                    ks.calls \o account.calls)

\* MobileWallet::set_balance
set_balance(self, balance) == [self EXCEPT !.balance = balance]

\* add_account that pushes first and numbers the account afterwards
add_account_numbered_after_push(self) ==
    LET account == Account_new(Len(self.accounts) + 1)
    IN [self EXCEPT !.accounts = Append(self.accounts, account.val[1])]

\* MobileWallet::add_account
add_account(self) ==
    LET account == Account_new(Len(self.accounts))
    IN [self EXCEPT !.accounts = Append(self.accounts, account.val[1])]

\* MobileWallet::add_transaction
add_transaction(self, transaction) ==
    [self EXCEPT !.transaction_history = Append(self.transaction_history, transaction)]

\* create_transaction that debits the balance of the wallet it builds from
create_transaction_debiting(self, recipient, amount, fee, now, checks) ==
    LET sum == AddU64(amount, fee, checks) IN
    IF sum.panic
    THEN [res |-> Err("panic", <<>>), self |-> self]
    ELSE IF sum.val > self.balance
    THEN [res |-> Err("InsufficientBalance", <<>>), self |-> self]
    ELSE LET account == self.accounts[self.active_account + 1]
             tx == MobileTransaction_new(account.address, recipient, amount, fee, now)
         IN [res |-> tx,
             self |-> IF tx.ok THEN [self EXCEPT !.balance = self.balance - sum.val]
                      ELSE self]

\* MobileWallet::create_transaction: the result, and the wallet it leaves
create_transaction(self, recipient, amount, fee, now, checks) ==
    LET sum == AddU64(amount, fee, checks) IN
    IF sum.panic
    THEN [res |-> Err("panic", <<>>), self |-> self]
    ELSE IF sum.val > self.balance
    THEN [res |-> Err("InsufficientBalance", <<>>), self |-> self]
    ELSE IF self.active_account >= Len(self.accounts)
    THEN [res |-> Err("panic", <<>>), self |-> self]
    ELSE LET account == self.accounts[self.active_account + 1]
         IN [res |-> MobileTransaction_new(account.address, recipient, amount, fee, now),
             self |-> self]

(***************************************************************************)
(* MobileWalletManager: the wallet slot, written whole under the lock      *)
(***************************************************************************)
\* create_wallet that empties the slot before it validates the password
create_wallet_clearing_first(slot, password, salt, seed, id) ==
    LET valid == validate_password(password) IN
    IF ~valid.ok THEN [res |-> Err(valid.err, valid.calls), slot |-> None]
    ELSE LET w == MobileWallet_new(password, salt, seed, id) IN
         IF ~w.ok THEN [res |-> Err(w.err, valid.calls \o w.calls), slot |-> None]
         ELSE [res |-> Ok(w.val[1], valid.calls \o w.calls), slot |-> Some(w.val[1])]

\* MobileWalletManager::create_wallet: the result, and the slot it leaves
create_wallet(slot, password, salt, seed, id) ==
    LET valid == validate_password(password) IN
    IF ~valid.ok THEN [res |-> Err(valid.err, valid.calls), slot |-> slot]
    ELSE LET w == MobileWallet_new(password, salt, seed, id) IN
         IF ~w.ok THEN [res |-> Err(w.err, valid.calls \o w.calls), slot |-> slot]
         ELSE [res |-> Ok(w.val[1], valid.calls \o w.calls), slot |-> Some(w.val[1])]

(***************************************************************************)
(* The state machine.  keystore is a Keystore object held by a caller,     *)
(* origin the phrase and password it was made from (history, not program   *)
(* state), wallet a MobileWallet object held by a caller, stored the       *)
(* manager's slot, ret the last call with its arguments and result.        *)
(* lock is the RwLock around the slot, pc and local the position and the   *)
(* locals of each thread inside a manager call, made the wallets built by  *)
(* create_wallet and import_wallet calls so far and loaded the id of the   *)
(* wallet stored last (both history), built the transactions a caller      *)
(* holds.                                                                  *)
(***************************************************************************)
Call(op, args, res) == [op |-> op, args |-> args, res |-> res]

\* the threads that share one MobileWalletManager (it is Clone over Arc)
Procs == 1..MaxProcs

\* a thread outside any call: no wallet built, nothing read
Idle == [op |-> "idle", args |-> <<>>, new |-> None, obs |-> None]

Init ==
    /\ keystore = None
    /\ origin = None
    /\ wallet = None
    /\ stored = None
    /\ ret = Call("init", <<>>, Ok(TRUE, <<>>))
    /\ overflow_checks \in BOOLEAN
    /\ lock = [writer |-> FALSE, readers |-> 0]
    /\ pc = [p \in Procs |-> "idle"]
    /\ local = [p \in Procs |-> Idle]
    /\ made = <<>>
    /\ loaded = None
    /\ built = <<>>

\* let ks = Keystore::new(password): the one keystore object the model follows
KeystoreNew ==
    /\ keystore = None
    /\ \E password \in Passwords, salt \in Salts, seed \in 0..(MaxSeeds - 1) :
        LET r == Keystore_new(password, salt, seed) IN
        /\ ret' = Call("Keystore::new", <<password>>, r)
        /\ keystore' = IF r.ok THEN Some(r.val[1]) ELSE keystore
        /\ origin' = IF r.ok
                     THEN Some([phrase |-> generate_mnemonic(seed).val[1],
                                password |-> password])
                     ELSE origin
        /\ UNCHANGED <<wallet, stored, overflow_checks, threads, loaded, built>>

\* let ks = Keystore::from_mnemonic(mnemonic, password)
KeystoreFromMnemonic ==
    /\ keystore = None
    /\ \E mnemonic \in Phrases, password \in Passwords, salt \in Salts :
        LET r == Keystore_from_mnemonic(mnemonic, password, salt) IN
        /\ ret' = Call("Keystore::from_mnemonic", <<mnemonic, password>>, r)
        /\ keystore' = IF r.ok THEN Some(r.val[1]) ELSE keystore
        /\ origin' = IF r.ok
                     THEN Some([phrase |-> mnemonic, password |-> password])
                     ELSE origin
        /\ UNCHANGED <<wallet, stored, overflow_checks, threads, loaded, built>>

\* ks.export_mnemonic(password)
KeystoreExport ==
    /\ keystore # None
    /\ \E password \in Passwords :
        /\ ret' = Call("Keystore::export_mnemonic", <<password>>,
                       export_mnemonic(keystore[1], password))
        /\ UNCHANGED <<keystore, origin, wallet, stored, overflow_checks, threads, loaded, built>>

\* the lengths a stored blob is cut to
TruncatedLens == {0, 11, 12, 27, 28}

\* The stored record comes back from storage (Keystore is Deserialize) with
\* one byte of encrypted_mnemonic changed, or with the blob cut short.
KeystoreCorrupt ==
    /\ keystore # None
    /\ keystore[1].encrypted_mnemonic.flip = 0
    /\ keystore[1].encrypted_mnemonic.len = 32
    /\ \/ \E i \in 1..32 :
             keystore' = Some([keystore[1] EXCEPT !.encrypted_mnemonic.flip = i])
       \/ \E n \in TruncatedLens :
             keystore' = Some([keystore[1] EXCEPT !.encrypted_mnemonic.len = n])
    /\ ret' = Call("deserialize", <<>>, Ok(TRUE, <<>>))
    /\ UNCHANGED <<origin, wallet, stored, overflow_checks, threads, loaded, built>>

NextKeystore == KeystoreNew \/ KeystoreFromMnemonic \/ KeystoreExport \/ KeystoreCorrupt

SpecKeystore == Init /\ [][NextKeystore]_vars

(***************************************************************************)
(* MobileWallet objects and the manager's create_wallet                    *)
(***************************************************************************)
\* the outcomes of the random source during one construction
Draws == [salt : Salts, seed : 0..(MaxSeeds - 1), id : WalletIds]

\* let wallet = MobileWallet::new(password): the one wallet object the model
\* follows
WalletNew(passwords, draws) ==
    /\ wallet = None
    /\ \E password \in passwords, d \in draws :
        LET r == MobileWallet_new(password, d.salt, d.seed, d.id) IN
        /\ ret' = Call("MobileWallet::new", <<password>>, r)
        /\ wallet' = IF r.ok THEN Some(r.val[1]) ELSE wallet
        /\ UNCHANGED <<keystore, origin, stored, overflow_checks, threads, loaded, built>>

\* let wallet = MobileWallet::from_mnemonic(mnemonic, password)
WalletFromMnemonic(phrases, passwords, draws) ==
    /\ wallet = None
    /\ \E mnemonic \in phrases, password \in passwords, d \in draws :
        LET r == MobileWallet_from_mnemonic(mnemonic, password, d.salt, d.id) IN
        /\ ret' = Call("MobileWallet::from_mnemonic", <<mnemonic, password>>, r)
        /\ wallet' = IF r.ok THEN Some(r.val[1]) ELSE wallet
        /\ UNCHANGED <<keystore, origin, stored, overflow_checks, threads, loaded, built>>

\* wallet.set_balance(balance)
SetBalance ==
    /\ wallet # None
    /\ \E balance \in Balances :
        /\ wallet' = Some(set_balance(wallet[1], balance))
        /\ ret' = Call("set_balance", <<balance>>, Ok(TRUE, <<>>))
    /\ UNCHANGED <<keystore, origin, stored, overflow_checks, threads, loaded, built>>

\* wallet.add_account()
AddAccount ==
    /\ wallet # None
    /\ Len(wallet[1].accounts) < MaxAccounts
    /\ wallet' = Some(add_account(wallet[1]))
    /\ ret' = Call("add_account", <<>>, Ok(TRUE, <<"blake3", "blake3">>))
    /\ UNCHANGED <<keystore, origin, stored, overflow_checks, threads, loaded, built>>

\* wallet.create_transaction(recipient, amount, fee)
CreateTransaction(times) ==
    /\ wallet # None
    /\ \E recipient \in Recipients, amount \in Amounts, fee \in Fees, now \in times :
        LET r == create_transaction(wallet[1], recipient, amount, fee, now, overflow_checks) IN
        /\ ret' = Call("create_transaction", <<recipient, amount, fee>>, r.res)
        /\ wallet' = Some(r.self)
    /\ UNCHANGED <<keystore, origin, stored, overflow_checks, threads, loaded, built>>

\* wallet.add_transaction(tx), tx the transaction create_transaction just
\* returned
AddTransaction ==
    /\ wallet # None
    /\ Len(wallet[1].transaction_history) < MaxHistory
    /\ ret.op = "create_transaction"
    /\ ret.res.ok
    /\ wallet' = Some(add_transaction(wallet[1], ret.res.val[1]))
    /\ ret' = Call("add_transaction", <<ret.res.val[1]>>, Ok(TRUE, <<>>))
    /\ UNCHANGED <<keystore, origin, stored, overflow_checks, threads, loaded, built>>

\* manager.create_wallet(password)
ManagerCreateWallet(draws) ==
    \E password \in Passwords, d \in draws :
        LET r == create_wallet(stored, password, d.salt, d.seed, d.id) IN
        /\ ret' = Call("MobileWalletManager::create_wallet", <<password>>, r.res)
        /\ stored' = r.slot
        /\ loaded' = IF r.res.ok THEN Some(r.res.val[1].id) ELSE loaded
        /\ UNCHANGED <<keystore, origin, wallet, overflow_checks, threads, built>>

\* the draw and the inputs the wallet-level runs construct their wallet from
FirstDraw == {d \in Draws : d.salt.id = 1 /\ d.seed = 0 /\ d.id = 1}

NextWallet ==
    \/ WalletNew({PwShort, PwValid}, FirstDraw)
    \/ WalletFromMnemonic({TestMnemonic, ThreeWords}, {PwValid}, FirstDraw)
    \/ SetBalance
    \/ AddAccount
    \/ CreateTransaction({1})
    \/ AddTransaction

SpecWallet == Init /\ [][NextWallet]_vars

NextCreate ==
    \/ KeystoreNew
    \/ WalletNew(Passwords, FirstDraw)
    \/ ManagerCreateWallet(FirstDraw)

SpecCreate == Init /\ [][NextCreate]_vars

(***************************************************************************)
(* MobileWalletManager: the calls as one thread sees them                  *)
(***************************************************************************)
\* MobileWalletManager::import_wallet: the result, and the slot it leaves
import_wallet(slot, mnemonic, password, salt, id) ==
    LET valid == validate_password(password) IN
    IF ~valid.ok THEN [res |-> Err(valid.err, valid.calls), slot |-> slot]
    ELSE LET w == MobileWallet_from_mnemonic(mnemonic, password, salt, id) IN
         IF ~w.ok THEN [res |-> Err(w.err, valid.calls \o w.calls), slot |-> slot]
         ELSE [res |-> Ok(w.val[1], valid.calls \o w.calls), slot |-> Some(w.val[1])]

\* MobileWalletManager::get_wallet: a clone of the slot's wallet
get_wallet(slot) ==
    IF slot = None THEN Err("NoWalletLoaded", <<>>) ELSE Ok(slot[1], <<>>)

\* MobileWalletManager::create_transaction
Manager_create_transaction(slot, recipient, amount, fee, now, checks) ==
    LET w == get_wallet(slot) IN
    IF ~w.ok THEN w
    ELSE create_transaction(w.val[1], recipient, amount, fee, now, checks).res

\* MobileWalletManager::get_balance
get_balance(slot) ==
    LET w == get_wallet(slot) IN
    IF ~w.ok THEN w ELSE Ok(w.val[1].balance, <<>>)

\* MobileWalletManager::sync (SyncManager::sync returns Ok(()))
sync(slot) ==
    LET w == get_wallet(slot) IN
    IF ~w.ok THEN w ELSE Ok(TRUE, <<>>)

\* MobileWalletManager::get_transaction_history
get_transaction_history(slot) ==
    LET w == get_wallet(slot) IN
    IF ~w.ok THEN w ELSE Ok(w.val[1].transaction_history, <<>>)

(***************************************************************************)
(* MobileWalletManager called from several threads.  A call is cut at the  *)
(* points where it takes and drops the RwLock; the assignment to the slot  *)
(* is two writes to memory.                                                *)
(***************************************************************************)
\* a write lock that waits for the writer only
write_available_ignoring_readers(l) == ~l.writer

\* RwLock::write returns once nobody holds the lock
write_available(l) == ~l.writer /\ l.readers = 0

\* RwLock::read returns once no writer holds the lock
read_available(l) == ~l.writer

\* the keystore bytes of a slot that never held a wallet
Unwritten == [kind |-> "unwritten"]

\* the slot after the first half of *stored_wallet = Some(wallet.clone()):
\* id, accounts and active_account are the new wallet's, the rest still old
HalfStored(new, old) ==
    Some([id |-> new.id,
          accounts |-> new.accounts,
          active_account |-> new.active_account,
          keystore |-> IF old = None THEN Unwritten ELSE old[1].keystore,
          balance |-> IF old = None THEN 0 ELSE old[1].balance,
          transaction_history |-> IF old = None THEN <<>> ELSE old[1].transaction_history])

\* the salt and word choice of the wallets the threads build; the uuid of
\* each is fresh
ThreadDraw == CHOOSE d \in FirstDraw : TRUE

\* validate_password and MobileWallet::new, then self.wallet.write()
ThreadCreateWallet(p) ==
    /\ pc[p] = "idle"
    /\ \E password \in {PwShort, PwValid} :
        LET r == create_wallet(None, password, ThreadDraw.salt, ThreadDraw.seed,
                               Len(made) + 1).res IN
        IF ~r.ok
        THEN /\ ret' = Call("MobileWalletManager::create_wallet", <<password>>, r)
             /\ UNCHANGED <<threads, stored, loaded>>
        ELSE /\ Len(made) < MaxIds
             /\ write_available(lock)
             /\ lock' = [lock EXCEPT !.writer = TRUE]
             /\ pc' = [pc EXCEPT ![p] = "store_first"]
             /\ local' = [local EXCEPT ![p] =
                            [op |-> "MobileWalletManager::create_wallet",
                             args |-> <<password>>, new |-> Some(r.val[1]), obs |-> None]]
             /\ made' = Append(made, r.val[1])
             /\ UNCHANGED <<ret, stored, loaded>>
    /\ UNCHANGED <<keystore, origin, wallet, overflow_checks, built>>

\* validate_password and MobileWallet::from_mnemonic, then self.wallet.write()
ThreadImportWallet(p) ==
    /\ pc[p] = "idle"
    /\ \E mnemonic \in {TestMnemonic, ThreeWords} :
        LET r == import_wallet(None, mnemonic, PwValid, ThreadDraw.salt,
                               Len(made) + 1).res IN
        IF ~r.ok
        THEN /\ ret' = Call("MobileWalletManager::import_wallet", <<mnemonic, PwValid>>, r)
             /\ UNCHANGED <<threads, stored, loaded>>
        ELSE /\ Len(made) < MaxIds
             /\ write_available(lock)
             /\ lock' = [lock EXCEPT !.writer = TRUE]
             /\ pc' = [pc EXCEPT ![p] = "store_first"]
             /\ local' = [local EXCEPT ![p] =
                            [op |-> "MobileWalletManager::import_wallet",
                             args |-> <<mnemonic, PwValid>>, new |-> Some(r.val[1]),
                             obs |-> None]]
             /\ made' = Append(made, r.val[1])
             /\ UNCHANGED <<ret, stored, loaded>>
    /\ UNCHANGED <<keystore, origin, wallet, overflow_checks, built>>

\* *stored_wallet = Some(wallet.clone()): the first half of the write
ThreadStoreFirst(p) ==
    /\ pc[p] = "store_first"
    /\ stored' = HalfStored(local[p].new[1], stored)
    /\ pc' = [pc EXCEPT ![p] = "store_rest"]
    /\ UNCHANGED <<keystore, origin, wallet, ret, overflow_checks, lock, local, made,
                   loaded, built>>

\* *stored_wallet = Some(wallet.clone()): the rest of the write
ThreadStoreRest(p) ==
    /\ pc[p] = "store_rest"
    /\ stored' = local[p].new
    /\ loaded' = Some(local[p].new[1].id)
    /\ pc' = [pc EXCEPT ![p] = "write_unlock"]
    /\ UNCHANGED <<keystore, origin, wallet, ret, overflow_checks, lock, local, made, built>>

\* the write guard is dropped and Ok(wallet) returned
ThreadReleaseWrite(p) ==
    /\ pc[p] = "write_unlock"
    /\ lock' = [lock EXCEPT !.writer = FALSE]
    /\ ret' = Call(local[p].op, local[p].args, Ok(local[p].new[1], <<>>))
    /\ pc' = [pc EXCEPT ![p] = "idle"]
    /\ local' = [local EXCEPT ![p] = Idle]
    /\ UNCHANGED <<keystore, origin, wallet, stored, overflow_checks, made, loaded, built>>

\* get_wallet (called directly or by get_balance, get_transaction_history,
\* create_transaction, sync): self.wallet.read()
ThreadAcquireRead(p) ==
    /\ pc[p] = "idle"
    /\ read_available(lock)
    /\ lock' = [lock EXCEPT !.readers = @ + 1]
    /\ pc' = [pc EXCEPT ![p] = "clone"]
    /\ UNCHANGED <<keystore, origin, wallet, stored, ret, overflow_checks, local, made,
                   loaded, built>>

\* get_wallet: wallet.clone()
ThreadClone(p) ==
    /\ pc[p] = "clone"
    /\ local' = [local EXCEPT ![p].obs = stored]
    /\ pc' = [pc EXCEPT ![p] = "read_unlock"]
    /\ UNCHANGED <<keystore, origin, wallet, stored, ret, overflow_checks, lock, made,
                   loaded, built>>

\* the calls that read the slot through get_wallet
ReadCalls == {"MobileWalletManager::get_wallet", "MobileWalletManager::get_balance",
              "MobileWalletManager::get_transaction_history",
              "MobileWalletManager::create_transaction"}

\* what a reading call returns from the clone it took
ReadResult(op, obs, checks) ==
    CASE op = "MobileWalletManager::get_wallet" -> get_wallet(obs)
      [] op = "MobileWalletManager::get_balance" -> get_balance(obs)
      [] op = "MobileWalletManager::get_transaction_history" -> get_transaction_history(obs)
      [] OTHER -> Manager_create_transaction(obs, Recipient, 999, 1, 1, checks)

\* get_wallet returns: the read guard is dropped, and the calling function
\* finishes on the clone
ThreadReleaseRead(p) ==
    /\ pc[p] = "read_unlock"
    /\ lock' = [lock EXCEPT !.readers = @ - 1]
    /\ \E op \in ReadCalls :
        ret' = Call(op, <<>>, ReadResult(op, local[p].obs, overflow_checks))
    /\ pc' = [pc EXCEPT ![p] = "idle"]
    /\ local' = [local EXCEPT ![p] = Idle]
    /\ UNCHANGED <<keystore, origin, wallet, stored, overflow_checks, made, loaded, built>>

NextThreads ==
    \E p \in Procs :
        \/ ThreadCreateWallet(p)
        \/ ThreadImportWallet(p)
        \/ ThreadStoreFirst(p)
        \/ ThreadStoreRest(p)
        \/ ThreadReleaseWrite(p)
        \/ ThreadAcquireRead(p)
        \/ ThreadClone(p)
        \/ ThreadReleaseRead(p)

SpecThreads == Init /\ [][NextThreads]_vars

(***************************************************************************)
(* MobileTransaction objects built by a caller                             *)
(***************************************************************************)
\* from addresses: none, and the addresses of the first two accounts
Senders == {EmptyString, Account_new(0).val[1].address, Account_new(1).val[1].address}

\* the amounts the caller builds transactions of
TxAmounts == {0, 999, 1000}

\* let tx = MobileTransaction::new(from, to, amount, fee): the caller keeps
\* the first two transactions it builds
TxNew ==
    /\ Len(built) < 2
    /\ \E from \in Senders, to \in Recipients, amount \in TxAmounts, fee \in Fees,
          now \in Times :
        LET r == MobileTransaction_new(from, to, amount, fee, now) IN
        /\ ret' = Call("MobileTransaction::new", <<from, to, amount, fee>>, r)
        /\ built' = IF r.ok THEN Append(built, r.val[1]) ELSE built
    /\ UNCHANGED <<keystore, origin, wallet, stored, overflow_checks, threads, loaded>>

\* built[i].set_status(status)
TxSetStatus ==
    /\ \E i \in 1..Len(built), status \in Statuses :
        /\ built' = [built EXCEPT ![i] = set_status(built[i], status)]
        /\ ret' = Call("set_status", <<i, status>>, Ok(TRUE, <<>>))
    /\ UNCHANGED <<keystore, origin, wallet, stored, overflow_checks, threads, loaded>>

NextTx == TxNew \/ TxSetStatus

SpecTx == Init /\ [][NextTx]_vars

(***************************************************************************)
(* MobileWalletManager called by one thread, and the copies it hands out   *)
(***************************************************************************)
\* manager.import_wallet(mnemonic, password)
ManagerImportWallet(phrases, passwords, draws) ==
    \E mnemonic \in phrases, password \in passwords, d \in draws :
        LET r == import_wallet(stored, mnemonic, password, d.salt, d.id) IN
        /\ ret' = Call("MobileWalletManager::import_wallet", <<mnemonic, password>>, r.res)
        /\ stored' = r.slot
        /\ loaded' = IF r.res.ok THEN Some(r.res.val[1].id) ELSE loaded
        /\ UNCHANGED <<keystore, origin, wallet, overflow_checks, threads, built>>

\* manager.get_wallet()
ManagerGetWallet ==
    /\ ret' = Call("MobileWalletManager::get_wallet", <<>>, get_wallet(stored))
    /\ UNCHANGED <<keystore, origin, wallet, stored, overflow_checks, threads, loaded, built>>

\* manager.get_balance()
ManagerGetBalance ==
    /\ ret' = Call("MobileWalletManager::get_balance", <<>>, get_balance(stored))
    /\ UNCHANGED <<keystore, origin, wallet, stored, overflow_checks, threads, loaded, built>>

\* manager.get_transaction_history()
ManagerGetTransactionHistory ==
    /\ ret' = Call("MobileWalletManager::get_transaction_history", <<>>,
                   get_transaction_history(stored))
    /\ UNCHANGED <<keystore, origin, wallet, stored, overflow_checks, threads, loaded, built>>

\* manager.sync()
ManagerSync ==
    /\ ret' = Call("MobileWalletManager::sync", <<>>, sync(stored))
    /\ UNCHANGED <<keystore, origin, wallet, stored, overflow_checks, threads, loaded, built>>

\* manager.create_transaction(recipient, amount, fee)
ManagerCreateTransaction(recipients, amounts) ==
    /\ \E recipient \in recipients, amount \in amounts, fee \in Fees :
        ret' = Call("MobileWalletManager::create_transaction", <<recipient, amount, fee>>,
                    Manager_create_transaction(stored, recipient, amount, fee, 1,
                                               overflow_checks))
    /\ UNCHANGED <<keystore, origin, wallet, stored, overflow_checks, threads, loaded, built>>

\* let mut wallet = <the wallet create_wallet, import_wallet or get_wallet
\* just returned>
HoldReturned ==
    /\ ret.op \in {"MobileWalletManager::create_wallet",
                   "MobileWalletManager::import_wallet",
                   "MobileWalletManager::get_wallet"}
    /\ ret.res.ok
    /\ wallet' = Some(ret.res.val[1])
    /\ UNCHANGED <<keystore, origin, stored, ret, overflow_checks, threads, loaded, built>>

\* wallet.add_transaction(tx) on the held wallet, tx a transaction built
\* from its first account
HeldAddTransaction ==
    /\ wallet # None
    /\ Len(wallet[1].transaction_history) < MaxHistory
    /\ LET tx == MobileTransaction_new(wallet[1].accounts[1].address, Recipient, 999, 1, 1)
       IN /\ wallet' = Some(add_transaction(wallet[1], tx.val[1]))
          /\ ret' = Call("add_transaction", <<tx.val[1]>>, Ok(TRUE, <<>>))
    /\ UNCHANGED <<keystore, origin, stored, overflow_checks, threads, loaded, built>>

\* the draws of the wallets the manager builds: every uuid, one salt
ManagerDraws == {d \in Draws : d.salt.id = 1 /\ d.seed = 0}

NextManager ==
    \/ ManagerCreateWallet(ManagerDraws)
    \/ ManagerImportWallet({TestMnemonic, ThreeWords}, {PwShort, PwValid}, ManagerDraws)
    \/ ManagerGetWallet
    \/ ManagerGetBalance
    \/ ManagerGetTransactionHistory
    \/ ManagerSync
    \/ ManagerCreateTransaction(Recipients, Amounts)

SpecManager == Init /\ [][NextManager]_vars

\* the manager's calls interleaved with a caller changing the wallet it holds
NextCopies ==
    \/ ManagerCreateWallet(FirstDraw)
    \/ ManagerImportWallet({TestMnemonic}, {PwValid}, FirstDraw)
    \/ ManagerGetWallet
    \/ ManagerGetBalance
    \/ ManagerGetTransactionHistory
    \/ ManagerCreateTransaction({Recipient}, {0, U64Max})
    \/ HoldReturned
    \/ SetBalance
    \/ AddAccount
    \/ HeldAddTransaction

SpecCopies == Init /\ [][NextCopies]_vars

Next == NextKeystore \/ NextWallet \/ NextCreate \/ NextThreads \/ NextTx \/ NextManager \/ NextCopies

Spec == Init /\ [][Next]_vars

(***************************************************************************)
(* Keystore properties (checked under SpecKeystore)                        *)
(***************************************************************************)
\* the stored blob is as encrypt computed it
Intact(ks) == ks.encrypted_mnemonic.flip = 0 /\ ks.encrypted_mnemonic.len = 32

Exported == ret.op = "Keystore::export_mnemonic"

\* C1: exporting with the password a keystore was created or imported under
\* (a password meeting the policy) succeeds and returns exactly the phrase
\* that was encrypted.
C1_RoundTrip ==
    (/\ Exported
     /\ Intact(keystore[1])
     /\ ret.args[1] = origin[1].password
     /\ MeetsPolicy(origin[1].password))
    => (ret.res.ok /\ ret.res.val[1] = origin[1].phrase)

\* C2: exporting with a password different from the one the keystore was
\* created or imported under fails with the decryption error and returns no
\* phrase.
C2_WrongPassword ==
    (Exported /\ ret.args[1] # origin[1].password)
    => (~ret.res.ok /\ ret.res.err = "CryptoError" /\ ret.res.val = <<>>)

C2_Witness ==
    /\ Exported
    /\ Intact(keystore[1])
    /\ origin[1].password = PwValid
    /\ ret.args[1] = PwOther
    /\ ret.res.err = "CryptoError"

\* C3: a Keystore holds only the encrypted secret, the salt and the KDF
\* parameters: no field of it is the plaintext phrase or a key derived from
\* the password.
C3_NoSecretAtRest ==
    keystore # None =>
        /\ DOMAIN keystore[1] \subseteq {"encrypted_mnemonic", "salt", "kdf_params"}
        /\ \A f \in DOMAIN keystore[1] : keystore[1][f].kind \notin {"argon2", "plaintext"}

\* the number of whitespace-separated tokens of a phrase, read left to right
RECURSIVE TokenCount(_, _)
TokenCount(s, in_word) ==
    IF s = <<>> THEN 0
    ELSE IF Head(s).ws THEN TokenCount(Tail(s), FALSE)
    ELSE (IF in_word THEN 0 ELSE 1) + TokenCount(Tail(s), TRUE)

\* C5: Keystore::from_mnemonic fails with InvalidMnemonic whenever the phrase
\* is not exactly 12 whitespace-separated tokens, and with a password meeting
\* the policy it succeeds for every phrase of exactly 12 tokens, in the
\* wordlist or not.
C5_PhraseShape ==
    ret.op = "Keystore::from_mnemonic" =>
        /\ TokenCount(ret.args[1], FALSE) # 12
              => (~ret.res.ok /\ ret.res.err = "InvalidMnemonic")
        /\ (TokenCount(ret.args[1], FALSE) = 12 /\ MeetsPolicy(ret.args[2]))
              => (ret.res.ok /\ keystore = Some(ret.res.val[1]))

C5_Witness ==
    /\ ret.op = "Keystore::from_mnemonic"
    /\ ret.args[1] = SpacedTwelve
    /\ MeetsPolicy(ret.args[2])
    /\ ret.res.ok

\* C10: with one byte of the stored blob changed, or the blob shorter than 28
\* bytes, export_mnemonic with any password returns CryptoError (no phrase,
\* no panic), and for a blob shorter than 28 bytes the cipher is not invoked.
C10_CorruptBlob ==
    (Exported /\ ~Intact(keystore[1])) =>
        /\ (keystore[1].encrypted_mnemonic.flip # 0 \/ keystore[1].encrypted_mnemonic.len < 28)
              => (~ret.res.ok /\ ret.res.err = "CryptoError")
        /\ keystore[1].encrypted_mnemonic.len < 28
              => \A i \in 1..Len(ret.res.calls) : ret.res.calls[i] # "chacha20poly1305"

C10_Witness ==
    /\ Exported
    /\ keystore[1].encrypted_mnemonic.len = 27
    /\ ret.args[1] = origin[1].password
    /\ ret.res.err = "CryptoError"
    /\ ret.res.calls = <<"argon2">>

(***************************************************************************)
(* Creation properties (checked under SpecCreate)                          *)
(***************************************************************************)
Created == ret.op \in {"Keystore::new", "MobileWallet::new",
                       "MobileWalletManager::create_wallet"}

\* C4: creating a keystore or wallet (Keystore::new, MobileWallet::new,
\* MobileWalletManager::create_wallet) with a password that is shorter than 8
\* characters or lacks an uppercase letter, a lowercase letter or a digit
\* fails with InvalidPassword, and no key derivation is performed before the
\* failure.
C4_PolicyOnCreate ==
    (Created /\ ~MeetsPolicy(ret.args[1])) =>
        /\ ~ret.res.ok
        /\ ret.res.err = "InvalidPassword"
        /\ \A i \in 1..Len(ret.res.calls) : ret.res.calls[i] # "argon2"

(***************************************************************************)
(* Wallet properties (checked under SpecWallet)                            *)
(***************************************************************************)
Built == ret.op = "create_transaction"

\* C6: create_transaction fails with InsufficientBalance whenever the
\* mathematical sum amount + fee exceeds the balance, also when the sum does
\* not fit in a u64: no wrapped sum passes the check and the call does not
\* panic.
C6_CheckedAddition ==
    (Built /\ ret.args[2] + ret.args[3] > wallet[1].balance)
    => (~ret.res.ok /\ ret.res.err = "InsufficientBalance")

\* C7: create_transaction returns a transaction only when the recipient is
\* non-empty, amount > 0 and amount + fee <= balance; an empty recipient or
\* amount = 0 yields InvalidTransaction; a returned transaction is Pending,
\* from the active account's address, to the recipient, and its total() is
\* amount + fee <= balance.
C7_BuildContract ==
    Built =>
        LET recipient == ret.args[1]
            amount == ret.args[2]
            fee == ret.args[3]
            self == wallet[1]
        IN /\ ret.res.ok =>
                 (recipient # EmptyString /\ amount > 0 /\ amount + fee <= self.balance)
           /\ (recipient = EmptyString \/ amount = 0) =>
                 (~ret.res.ok /\ ret.res.err = "InvalidTransaction")
           /\ ret.res.ok =>
                 LET tx == ret.res.val[1] IN
                 /\ tx.status = "Pending"
                 /\ tx.from = self.accounts[self.active_account + 1].address
                 /\ tx.to = recipient
                 /\ ~total(tx, overflow_checks).panic
                 /\ total(tx, overflow_checks).val = amount + fee
                 /\ total(tx, overflow_checks).val <= self.balance

\* C8: create_transaction, succeeding or failing, leaves the wallet (balance,
\* history, accounts, active account, id, keystore) as it was; the history of
\* a wallet changes only in add_transaction and its balance only in
\* set_balance.
C8_BuildFrame ==
    [][/\ ret'.op = "create_transaction" => wallet' = wallet
       /\ (wallet # None /\ wallet' # None) =>
            /\ wallet'[1].transaction_history # wallet[1].transaction_history
                  => ret'.op = "add_transaction"
            /\ wallet'[1].balance # wallet[1].balance
                  => ret'.op = "set_balance"]_vars

C8_Witness ==
    /\ Built
    /\ ret.res.ok
    /\ ret.args = <<Recipient, 999, 1>>
    /\ wallet[1].balance = 1000
    /\ wallet[1].transaction_history = <<>>

\* the account list is well formed
AccountsWellFormed(self) ==
    /\ Len(self.accounts) >= 1
    /\ \A i \in 1..Len(self.accounts) : self.accounts[i].index = i - 1
    /\ self.active_account \in 0..(Len(self.accounts) - 1)

\* C9: after construction and after any sequence of add_account, set_balance,
\* add_transaction and create_transaction, the account list is non-empty, the
\* account at position i has index i, active_account is a valid position, and
\* a step only ever appends to the list.
C9_Accounts ==
    /\ [](wallet # None => AccountsWellFormed(wallet[1]))
    /\ [][(wallet # None /\ wallet' # None) =>
            /\ Len(wallet'[1].accounts) >= Len(wallet[1].accounts)
            /\ SubSeq(wallet'[1].accounts, 1, Len(wallet[1].accounts)) = wallet[1].accounts]_vars

C9_Witness ==
    /\ ret.op = "add_account"
    /\ Len(wallet[1].accounts) = MaxAccounts
    /\ wallet[1].accounts[MaxAccounts].index = MaxAccounts - 1
    /\ wallet[1].transaction_history # <<>>

(***************************************************************************)
(* Manager properties under concurrent calls (checked under SpecThreads)   *)
(***************************************************************************)
\* thread p is between self.wallet.write() and the drop of its guard
WriterHolds(p) == pc[p] \in {"store_first", "store_rest", "write_unlock"}

\* thread p is between self.wallet.read() and the drop of its guard
ReaderHolds(p) == pc[p] \in {"clone", "read_unlock"}

\* no wallet, or the wallet one create_wallet or import_wallet call built
Whole(slot) == slot = None \/ \E i \in 1..Len(made) : slot[1] = made[i]

\* C11: in every interleaving of create_wallet, import_wallet, get_wallet,
\* get_balance, get_transaction_history and create_transaction calls, a
\* writer never holds the slot while another reader or writer holds it, and
\* every read observes no wallet or a wallet stored whole by one
\* create/import call.
C11_RwLock ==
    /\ \A p \in Procs : WriterHolds(p) =>
          \A q \in Procs \ {p} : ~WriterHolds(q) /\ ~ReaderHolds(q)
    /\ \A p \in Procs : pc[p] = "read_unlock" => Whole(local[p].obs)
    /\ (ret.op = "MobileWalletManager::get_wallet" /\ ret.res.ok)
          => Whole(Some(ret.res.val[1]))

\* two readers hold the slot at once, one of them with the second wallet
\* that was stored
C11_Witness ==
    \E p \in Procs, q \in Procs :
        /\ p # q
        /\ ReaderHolds(q)
        /\ pc[p] = "read_unlock"
        /\ Len(made) = 2
        /\ local[p].obs = Some(made[2])

(***************************************************************************)
(* Transaction id (checked under SpecTx)                                   *)
(***************************************************************************)
\* C12: two transactions built with equal from, to and amount have equal
\* ids, whatever their fee, timestamp and status; the id is fixed by
\* (from, to, amount).
C12_IdDeterministic ==
    \A i \in 1..Len(built), j \in 1..Len(built) :
        (/\ built[i].from = built[j].from
         /\ built[i].to = built[j].to
         /\ built[i].amount = built[j].amount)
        => built[i].id = built[j].id

C12_Witness ==
    /\ Len(built) = 2
    /\ built[1].from = built[2].from
    /\ built[1].to = built[2].to
    /\ built[1].amount = built[2].amount
    /\ built[1].fee # built[2].fee
    /\ built[1].timestamp # built[2].timestamp
    /\ built[1].status # built[2].status
    /\ built[1].id = built[2].id

(***************************************************************************)
(* The manager's slot (checked under SpecManager)                          *)
(***************************************************************************)
ManagerReads ==
    {"MobileWalletManager::get_wallet", "MobileWalletManager::get_balance",
     "MobileWalletManager::get_transaction_history", "MobileWalletManager::sync",
     "MobileWalletManager::create_transaction"}

ManagerStores ==
    {"MobileWalletManager::create_wallet", "MobileWalletManager::import_wallet"}

\* C13: get_wallet, get_balance, get_transaction_history, sync and
\* create_transaction fail with NoWalletLoaded exactly when no create_wallet
\* or import_wallet has succeeded so far; a failing create_wallet or
\* import_wallet leaves the slot as it was; after a successful one the slot
\* holds the returned wallet and get_wallet returns the wallet with the id
\* of the wallet stored last.
C13_NoWalletLoaded ==
    /\ [](/\ ret.op \in ManagerReads =>
               ((~ret.res.ok /\ ret.res.err = "NoWalletLoaded") <=> loaded = None)
          /\ (ret.op = "MobileWalletManager::get_wallet" /\ ret.res.ok) =>
               ret.res.val[1].id = loaded[1]
          /\ (ret.op \in ManagerStores /\ ret.res.ok) =>
               (stored = Some(ret.res.val[1]) /\ loaded = Some(ret.res.val[1].id)))
    /\ [][(ret'.op \in ManagerStores /\ ~ret'.res.ok) =>
               (stored' = stored /\ loaded' = loaded)]_vars

C13_Witness ==
    /\ ret.op \in ManagerStores
    /\ ~ret.res.ok
    /\ stored # None
    /\ loaded = Some(stored[1].id)
    /\ stored[1].id = 2

(***************************************************************************)
(* Copies handed out by the manager (checked under SpecCopies)             *)
(***************************************************************************)
\* C14: set_balance, add_account and add_transaction on a wallet returned by
\* the manager never change the stored wallet; with a wallet loaded
\* get_balance returns 0, get_transaction_history returns the empty
\* sequence, and MobileWalletManager::create_transaction returns no
\* transaction: InsufficientBalance when amount + fee > 0,
\* InvalidTransaction when amount = fee = 0.
C14_CopiesOnly ==
    /\ [][ret'.op \in {"set_balance", "add_account", "add_transaction"} =>
               stored' = stored]_vars
    /\ [](loaded # None =>
            /\ ret.op = "MobileWalletManager::get_balance" =>
                   (ret.res.ok /\ ret.res.val[1] = 0)
            /\ ret.op = "MobileWalletManager::get_transaction_history" =>
                   (ret.res.ok /\ ret.res.val[1] = <<>>)
            /\ ret.op = "MobileWalletManager::create_transaction" =>
                   /\ ~ret.res.ok
                   /\ ret.args[2] + ret.args[3] > 0 =>
                          ret.res.err = "InsufficientBalance"
                   /\ (ret.args[2] = 0 /\ ret.args[3] = 0) =>
                          ret.res.err = "InvalidTransaction")

\* the part of C14 that does not pass through the sum amount + fee
C14_StoredUntouched ==
    /\ [][ret'.op \in {"set_balance", "add_account", "add_transaction"} =>
               stored' = stored]_vars
    /\ [](stored # None =>
            /\ stored[1].balance = 0
            /\ stored[1].transaction_history = <<>>
            /\ Len(stored[1].accounts) = 1)

C14_HeldChanged ==
    /\ stored # None
    /\ wallet # None
    /\ wallet[1].balance # 0
    /\ Len(wallet[1].accounts) > 1
    /\ wallet[1].transaction_history # <<>>
    /\ ret.op = "MobileWalletManager::get_balance"

====
